---- MODULE Spec2Model ----
(***************************************************************************)
(* A model of the RPC dispatch core of django-modern-rpc:                  *)
(*   modernrpc/core.py   RPCMethod, _RPCRegistry, RpcRequest, RpcResult,   *)
(*                       rpc_method                                        *)
(*   modernrpc/system_methods.py   the system.* procedures                 *)
(* and of the dispatch pipeline that resolves, authorizes and invokes.     *)
(*                                                                         *)
(*   Spec          decoration, registration and reset                      *)
(*   SpecQuery     the lookups on a registry filled at start-up            *)
(*   SpecValid     is_valid_for on one method                              *)
(*   SpecDispatch  the dispatch pipeline, one request at a time            *)
(*   SpecEnvelope  RpcRequest and RpcResult on their own                   *)
(*   SpecSystem    system.listMethods, methodSignature, methodHelp         *)
(*   SpecMulticall system.multicall over the dispatch pipeline             *)
(*                                                                         *)
(* Strings that are compared lexicographically or by prefix (method names) *)
(* are sequences of code points; the other strings are TLA+ strings.       *)
(***************************************************************************)
EXTENDS Integers, Sequences, FiniteSets, TLC

VARIABLES
    funcs,        \* the attributes rpc_method (and the auth decorators) set on each function
    registry,     \* _RPCRegistry._registry: insertion-ordered dict, as a sequence of (key, method)
    last,         \* the last registry operation: its outcome, the registry before it, the operation before it
    decorations,  \* number of decorator applications so far
    out,          \* the last lookup: its arguments and what it returned
    pc,           \* the dispatch pipeline's position for the request in flight
    rpc_request,  \* the RpcRequest in flight, with the caller and the handler's entry point and protocol
    rpc_result,   \* the RpcResult of the request in flight
    trace         \* what the pipeline did for the request in flight: method found, predicates called, procedure called

vars == <<funcs, registry, last, decorations, out, pc, rpc_request, rpc_result, trace>>
regvars == <<funcs, registry, last, decorations>>
dispatchvars == <<pc, rpc_request, rpc_result, trace>>

----------------------------------------------------------------------------
(* Bounds *)

MaxDecorations == 2
\* the longest list of calls given to system.multicall
MaxCalls == 2

----------------------------------------------------------------------------
(* Values *)

ALL == "__all__"
JSONRPC_PROTOCOL == "__json_rpc"
XMLRPC_PROTOCOL == "__xml_rpc"

\* A Python str and a Python list (or tuple) of str, as given to rpc_method(entry_point=, protocol=)
Str(v) == [kind |-> "str", val |-> v]
List(s) == [kind |-> "list", val |-> s]
\* the value of an attribute that is not set
Unset == [kind |-> "unset", val |-> ""]

\* Method names: "a", "ab", "b" as code points
NameA == <<97>>
NameAB == <<97, 98>>
NameB == <<98>>
\* "rpc.a", a name with the reserved prefix
NameRpcA == <<114, 112, 99, 46, 97>>
\* the name argument of rpc_method when it is None (or '')
NoName == <<>>

\* The functions of the program and their __name__
Funcs == {"f", "g", "h"}
FuncName(func) == IF func = "f" THEN NameAB ELSE IF func = "g" THEN NameB ELSE NameA

\* The functions that rpc_method is applied to in Spec; h stays a plain function there
Declared == {"f", "g"}

\* Arguments the decorator is applied with
DecoratorNames == {NoName, NameA, NameB, NameRpcA}
DecoratorEntryPoints == {Str(ALL), List(<<"e1", "e2">>)}
DecoratorProtocols == {Str(ALL), Str(XMLRPC_PROTOCOL), Str(JSONRPC_PROTOCOL)}

\* Arguments of the lookups
EntryPoints == {ALL, "e1", "e2"}
Protocols == {ALL, JSONRPC_PROTOCOL, XMLRPC_PROTOCOL}
Names == {NameA, NameAB, NameB}

Contains(s, v) == \E i \in 1..Len(s) : s[i] = v

\* s.startswith(prefix)
StartsWith(s, prefix) == Len(s) >= Len(prefix) /\ SubSeq(s, 1, Len(prefix)) = prefix

\* s < t for Python str (code point order, a proper prefix first)
RECURSIVE StrLess(_, _)
StrLess(s, t) ==
    IF t = <<>> THEN FALSE
    ELSE IF s = <<>> THEN TRUE
    ELSE IF Head(s) # Head(t) THEN Head(s) < Head(t)
    ELSE StrLess(Tail(s), Tail(t))

\* modernrpc.helpers.ensure_sequence: a list or tuple as it is, anything else as a one-element list
ensure_sequence(element) == IF element.kind = "list" THEN element.val ELSE <<element.val>>

----------------------------------------------------------------------------
(* RPCMethod *)

\* RPCMethod.__init__: entry point, protocol and predicates are read from the function once
RPCMethod(fs, func) ==
    [function          |-> func,
     entry_point       |-> fs[func].modernrpc_entry_point,
     protocol          |-> fs[func].modernrpc_protocol,
     predicates        |-> fs[func].modernrpc_auth_predicates,
     predicates_params |-> fs[func].modernrpc_auth_predicates_params]

\* the result of a lookup that finds nothing
None == [function |-> "None", entry_point |-> Unset, protocol |-> Unset,
         predicates |-> <<>>, predicates_params |-> <<>>]

\* getattr(func, 'modernrpc_name', func.__name__)
modernrpc_name(fs, func) ==
    IF fs[func].modernrpc_name = NoName THEN FuncName(func) ELSE fs[func].modernrpc_name

\* RPCMethod.name: a property, read from the function at every access
name(fs, method) == modernrpc_name(fs, method.function)

\* == on the values of entry_point and protocol (a str never equals a list)
ValueEq(a, b) == a.kind = b.kind /\ a.val = b.val

\* a __eq__ that compares object identity: a newly built RPCMethod equals no stored one
RPCMethod_eq_identity(fs, self, other) == FALSE

\* RPCMethod.__eq__
RPCMethod_eq(fs, self, other) ==
    /\ self.function = other.function
    /\ name(fs, self) = name(fs, other)
    /\ ValueEq(self.entry_point, other.entry_point)
    /\ ValueEq(self.protocol, other.protocol)
    /\ self.predicates = other.predicates
    /\ self.predicates_params = other.predicates_params

\* RPCMethod.available_for_protocol
available_for_protocol(self, protocol) ==
    IF ValueEq(self.protocol, Str(ALL)) \/ protocol = ALL THEN TRUE
    ELSE Contains(ensure_sequence(self.protocol), protocol)

\* an available_for_entry_point that takes ALL as a wildcard on the method's side only
available_for_entry_point_own(self, entry_point) ==
    IF ValueEq(self.entry_point, Str(ALL)) THEN TRUE
    ELSE Contains(ensure_sequence(self.entry_point), entry_point)

\* RPCMethod.available_for_entry_point
available_for_entry_point(self, entry_point) ==
    IF ValueEq(self.entry_point, Str(ALL)) \/ entry_point = ALL THEN TRUE
    ELSE Contains(ensure_sequence(self.entry_point), entry_point)

\* RPCMethod.is_valid_for
is_valid_for(self, entry_point, protocol) ==
    available_for_entry_point(self, entry_point) /\ available_for_protocol(self, protocol)

\* The callers: the user of the HTTP request
Anonymous == [authenticated |-> FALSE, superuser |-> FALSE, perms |-> {}]
User(perms) == [authenticated |-> TRUE, superuser |-> FALSE, perms |-> perms]
Superuser == [authenticated |-> TRUE, superuser |-> TRUE, perms |-> {}]
Users == {Anonymous, User({}), User({"p1"}), User({"p1", "p2"}), Superuser}

\* predicate(request, *params): the predicates of modernrpc.auth
Call(predicate, user, params) ==
    IF predicate = "user_is_authenticated" THEN user.authenticated
    ELSE IF predicate = "user_is_superuser" THEN user.superuser
    ELSE user.superuser \/ params[1] \in user.perms

Called(self, i) == [predicate |-> self.predicates[i], params |-> self.predicates_params[i]]

\* all(predicate(request, *self.predicates_params[i]) for i, predicate in enumerate(...)),
\* from the i-th predicate on: the generator stops at the first false; calls are the calls made
RECURSIVE all_from(_, _, _)
all_from(self, user, i) ==
    IF i > Len(self.predicates) THEN [raised |-> FALSE, value |-> TRUE, calls |-> <<>>]
    ELSE IF i > Len(self.predicates_params) THEN [raised |-> TRUE, value |-> FALSE, calls |-> <<>>]
    ELSE IF ~Call(self.predicates[i], user, self.predicates_params[i])
         THEN [raised |-> FALSE, value |-> FALSE, calls |-> <<Called(self, i)>>]
         ELSE LET rest == all_from(self, user, i + 1)
              IN  [rest EXCEPT !.calls = <<Called(self, i)>> \o @]

\* any(...) in the place of all(...)
RECURSIVE any_from(_, _, _)
any_from(self, user, i) ==
    IF i > Len(self.predicates) THEN [raised |-> FALSE, value |-> FALSE, calls |-> <<>>]
    ELSE IF i > Len(self.predicates_params) THEN [raised |-> TRUE, value |-> FALSE, calls |-> <<>>]
    ELSE IF Call(self.predicates[i], user, self.predicates_params[i])
         THEN [raised |-> FALSE, value |-> TRUE, calls |-> <<Called(self, i)>>]
         ELSE LET rest == any_from(self, user, i + 1)
              IN  [rest EXCEPT !.calls = <<Called(self, i)>> \o @]

\* a check_permissions that is satisfied by any one of the predicates
check_permissions_any(self, user) ==
    IF self.predicates = <<>> THEN [raised |-> FALSE, value |-> TRUE, calls |-> <<>>]
    ELSE any_from(self, user, 1)

\* a check_permissions that returns the result of the first predicate
check_permissions_first(self, user) ==
    IF self.predicates = <<>> THEN [raised |-> FALSE, value |-> TRUE, calls |-> <<>>]
    ELSE [raised |-> FALSE, value |-> Call(self.predicates[1], user, self.predicates_params[1]),
          calls |-> <<Called(self, 1)>>]

\* RPCMethod.check_permissions
check_permissions(self, user) ==
    IF self.predicates = <<>> THEN [raised |-> FALSE, value |-> TRUE, calls |-> <<>>]
    ELSE all_from(self, user, 1)

----------------------------------------------------------------------------
(* _RPCRegistry *)

\* the keys of the dict, in insertion order
Keys(reg) == [i \in 1..Len(reg) |-> reg[i].key]

\* name in self._registry
HasKey(reg, key) == \E i \in 1..Len(reg) : reg[i].key = key

\* self._registry[name]
Item(reg, key) == reg[CHOOSE i \in 1..Len(reg) : reg[i].key = key].method

\* self._registry[key] = method
SetItem(reg, key, method) ==
    IF HasKey(reg, key)
    THEN [i \in 1..Len(reg) |-> IF reg[i].key = key THEN [key |-> key, method |-> method] ELSE reg[i]]
    ELSE Append(reg, [key |-> key, method |-> method])

\* a get_method that returns whatever is stored under the name
get_method_any(reg, key, entry_point, protocol) ==
    IF HasKey(reg, key) THEN Item(reg, key) ELSE None

\* _RPCRegistry.get_method
get_method(reg, key, entry_point, protocol) ==
    IF HasKey(reg, key) /\ is_valid_for(Item(reg, key), entry_point, protocol)
    THEN Item(reg, key)
    ELSE None

\* sorted(names): the names are inserted one by one at their place
RECURSIVE Insert(_, _)
Insert(s, x) ==
    IF s = <<>> THEN <<x>>
    ELSE IF StrLess(x, Head(s)) THEN <<x>> \o s
    ELSE <<Head(s)>> \o Insert(Tail(s), x)

RECURSIVE sorted(_)
sorted(s) == IF s = <<>> THEN <<>> ELSE Insert(sorted(SubSeq(s, 1, Len(s) - 1)), s[Len(s)])

\* sorted(self._registry.items()): the keys are distinct, so the pairs are ordered by key
sorted_items(reg) ==
    LET keys == sorted(Keys(reg))
    IN  [i \in 1..Len(reg) |-> [key |-> keys[i], method |-> Item(reg, keys[i])]]

\* the items whose method is valid for the pair, in the order given
ValidItems(items, entry_point, protocol) ==
    LET valid(item) == is_valid_for(item.method, entry_point, protocol)
    IN  SelectSeq(items, valid)

Values(items) == [i \in 1..Len(items) |-> items[i].method]

\* a get_all_method_names that does not look at sort_methods
get_all_method_names_unsorted(reg, entry_point, protocol, sort_methods) ==
    Keys(ValidItems(reg, entry_point, protocol))

\* _RPCRegistry.get_all_method_names
get_all_method_names(reg, entry_point, protocol, sort_methods) ==
    LET method_names == Keys(ValidItems(reg, entry_point, protocol))
    IN  IF sort_methods THEN sorted(method_names) ELSE method_names

\* _RPCRegistry.get_all_methods: without sort_methods, every stored method
get_all_methods(reg, entry_point, protocol, sort_methods) ==
    IF sort_methods
    THEN Values(ValidItems(sorted_items(reg), entry_point, protocol))
    ELSE Values(reg)

\* _RPCRegistry.total_count
total_count(reg) == Len(reg)

Raise(reg) == [raised |-> TRUE, value |-> NoName, registry |-> reg]
Return(reg, value) == [raised |-> FALSE, value |-> value, registry |-> reg]

\* the prefix reserved for system extensions
ReservedPrefix == <<114, 112, 99, 46>>

\* a register_method that looks the name up for the new method's own protocol instead of ALL
register_method_scoped(reg, fs, func) ==
    IF ~fs[func].modernrpc_enabled THEN Raise(reg)
    ELSE IF StartsWith(modernrpc_name(fs, func), ReservedPrefix) THEN Raise(reg)
    ELSE LET method == RPCMethod(fs, func)
             existing_method ==
                 IF method.protocol.kind = "str"
                 THEN get_method(reg, name(fs, method), ALL, method.protocol.val)
                 ELSE get_method(reg, name(fs, method), ALL, ALL)
         IN  IF existing_method # None
             THEN IF RPCMethod_eq(fs, method, existing_method)
                  THEN Return(reg, name(fs, method))
                  ELSE Raise(reg)
             ELSE Return(SetItem(reg, name(fs, method), method), name(fs, method))

\* a register_method that stores the method before it looks at the reserved prefix
register_method_late(reg, fs, func) ==
    IF ~fs[func].modernrpc_enabled THEN Raise(reg)
    ELSE LET method == RPCMethod(fs, func)
             existing_method == get_method(reg, name(fs, method), ALL, ALL)
             stored == IF existing_method # None THEN reg
                       ELSE SetItem(reg, name(fs, method), method)
         IN  IF StartsWith(modernrpc_name(fs, func), ReservedPrefix) THEN Raise(stored)
             ELSE IF existing_method # None /\ ~RPCMethod_eq(fs, method, existing_method)
             THEN Raise(reg)
             ELSE Return(stored, name(fs, method))

\* _RPCRegistry.register_method: raised is ImproperlyConfigured, value the returned name
register_method(reg, fs, func) ==
    IF ~fs[func].modernrpc_enabled THEN Raise(reg)
    ELSE IF StartsWith(modernrpc_name(fs, func), ReservedPrefix) THEN Raise(reg)
    ELSE LET method == RPCMethod(fs, func)
             existing_method == get_method(reg, name(fs, method), ALL, ALL)
         IN  IF existing_method # None
             THEN IF RPCMethod_eq(fs, method, existing_method)
                  THEN Return(reg, name(fs, method))
                  ELSE Raise(reg)
             ELSE Return(SetItem(reg, name(fs, method), method), name(fs, method))

----------------------------------------------------------------------------
(* Registration: rpc_method, the auth decorators, register_method, reset *)

Brief(l) == [op |-> l.op, func |-> l.func, raised |-> l.raised, value |-> l.value]

Record(op, func, raised, value) ==
    [op |-> op, func |-> func, raised |-> raised, value |-> value,
     before |-> registry, prev |-> Brief(last)]

\* a plain function: no modernrpc_* attribute; the missing modernrpc_auth_predicates (None)
\* and modernrpc_auth_predicates_params (()) are the empty sequence, which never is the value
\* of a function that has an auth decorator
Undecorated ==
    [modernrpc_enabled |-> FALSE, modernrpc_name |-> NoName,
     modernrpc_entry_point |-> Unset, modernrpc_protocol |-> Unset,
     modernrpc_auth_predicates |-> <<>>, modernrpc_auth_predicates_params |-> <<>>]

NoOp == [op |-> "none", func |-> "-", raised |-> FALSE, value |-> NoName]
NoLast == [op |-> "init", func |-> "-", raised |-> FALSE, value |-> NoName,
           before |-> <<>>, prev |-> NoOp]
NoOut == [op |-> "none"]
NoRequest == [method_name |-> NoName]
NoResult == [request_id |-> "None", response_is_error |-> "None", data |-> <<>>]
NoTrace == [method |-> None, checked |-> FALSE, auth |-> [raised |-> FALSE, value |-> FALSE, calls |-> <<>>],
            called |-> <<>>, raised |-> FALSE, message |-> "", registry |-> <<>>]

Init ==
    /\ funcs = [func \in Funcs |-> Undecorated]
    /\ registry = <<>>
    /\ last = NoLast
    /\ decorations = 0
    /\ out = NoOut
    /\ pc = "idle"
    /\ rpc_request = NoRequest
    /\ rpc_result = NoResult
    /\ trace = NoTrace

\* rpc_method(name=, entry_point=, protocol=)(func): decorated(_func)
decorated(fs, func, nm, entry_point, protocol) ==
    [fs EXCEPT ![func] =
        [@ EXCEPT !.modernrpc_enabled = TRUE,
                  !.modernrpc_name = IF nm # NoName THEN nm ELSE FuncName(func),
                  !.modernrpc_entry_point = entry_point,
                  !.modernrpc_protocol = protocol]]

\* an auth decorator applied to func: one more predicate, and its parameters at the same index
set_authentication_predicate(fs, func, predicate, params) ==
    [fs EXCEPT ![func] =
        [@ EXCEPT !.modernrpc_auth_predicates = Append(@, predicate),
                  !.modernrpc_auth_predicates_params = Append(@, params)]]

Decorate(func, nm, entry_point, protocol) ==
    /\ decorations < MaxDecorations
    /\ decorations' = decorations + 1
    /\ funcs' = decorated(funcs, func, nm, entry_point, protocol)
    /\ last' = Record("rpc_method", func, FALSE, NoName)
    /\ UNCHANGED <<registry, out, dispatchvars>>

DecorateAuth(func, predicate, params) ==
    /\ decorations < MaxDecorations
    /\ decorations' = decorations + 1
    /\ funcs' = set_authentication_predicate(funcs, func, predicate, params)
    /\ last' = Record("auth", func, FALSE, NoName)
    /\ UNCHANGED <<registry, out, dispatchvars>>

\* registry.register_method(func)
Register(func) ==
    LET r == register_method(registry, funcs, func)
    IN  /\ registry' = r.registry
        /\ last' = Record("register_method", func, r.raised, r.value)
        /\ UNCHANGED <<funcs, decorations, out, dispatchvars>>

\* a reset that forgets every method but the first one registered
reset_but_first(reg) == IF reg = <<>> THEN <<>> ELSE <<reg[1]>>

\* _RPCRegistry.reset
reset(reg) == <<>>

\* registry.reset()
Reset ==
    /\ registry' = reset(registry)
    /\ last' = [Record("reset", "-", FALSE, NoName) EXCEPT !.before = <<>>]
    /\ UNCHANGED <<funcs, decorations, out, dispatchvars>>

\* The auth decorators a function is given in the registration runs
RegAuthChoices == {[predicate |-> "user_is_authenticated", params |-> <<>>]}

Next ==
    \/ \E func \in Declared, nm \in DecoratorNames, entry_point \in DecoratorEntryPoints,
          protocol \in DecoratorProtocols : Decorate(func, nm, entry_point, protocol)
    \/ \E func \in Declared, a \in RegAuthChoices : DecorateAuth(func, a.predicate, a.params)
    \/ \E func \in Funcs : Register(func)
    \/ Reset

Spec == Init /\ [][Next]_vars

----------------------------------------------------------------------------
(* Properties of registration *)

\* the last operation is a register_method(f) that directly follows a register_method(f) that returned
SecondRegister ==
    /\ last.op = "register_method"
    /\ last.prev.op = "register_method"
    /\ last.prev.func = last.func
    /\ ~last.prev.raised

\* C1: registration is idempotent: a second register_method(f), with f's decoration unchanged
\* since the first one returned, returns the same name and leaves count() and the stored
\* descriptors as they were.
C1_RegisterIdempotent ==
    SecondRegister =>
        /\ ~last.raised
        /\ last.value = last.prev.value
        /\ total_count(registry) = total_count(last.before)
        /\ registry = last.before

C1_Witness ==
    /\ SecondRegister
    /\ ~last.raised
    /\ HasKey(registry, last.value)
    /\ Item(registry, last.value).function = last.func

\* the two descriptors differ in procedure, entry point, protocol or authorization predicates
Differ(m1, m2) ==
    \/ m1.function # m2.function
    \/ ~ValueEq(m1.entry_point, m2.entry_point)
    \/ ~ValueEq(m1.protocol, m2.protocol)
    \/ m1.predicates # m2.predicates
    \/ m1.predicates_params # m2.predicates_params

\* the last operation is a register_method of an RPC-marked function whose name was already
\* registered with a different descriptor
Collision ==
    /\ last.op = "register_method"
    /\ funcs[last.func].modernrpc_enabled
    /\ HasKey(last.before, modernrpc_name(funcs, last.func))
    /\ Differ(RPCMethod(funcs, last.func), Item(last.before, modernrpc_name(funcs, last.func)))

\* C2: registering a declaration under a name that is already registered with a descriptor
\* that is not equal fails with a configuration error and leaves count() and the stored
\* descriptors unchanged, whatever entry points and protocols the two are restricted to.
C2_CollisionRejected ==
    Collision =>
        /\ last.raised
        /\ total_count(registry) = total_count(last.before)
        /\ registry = last.before

\* a collision between two declarations restricted to different single protocols
C2_Witness ==
    /\ Collision
    /\ last.raised
    /\ LET new == RPCMethod(funcs, last.func)
           old == Item(last.before, modernrpc_name(funcs, last.func))
       IN  /\ new.protocol.kind = "str" /\ old.protocol.kind = "str"
           /\ new.protocol.val # ALL /\ old.protocol.val # ALL
           /\ new.protocol.val # old.protocol.val

\* C3: the registry holds at most one descriptor per name: every stored descriptor's name is
\* the key it is stored under, and no two entries hold descriptors reporting the same name.
C3_OneDescriptorPerName ==
    /\ \A i \in 1..Len(registry) : name(funcs, registry[i].method) = registry[i].key
    /\ \A i, j \in 1..Len(registry) :
          i # j => name(funcs, registry[i].method) # name(funcs, registry[j].method)

\* the function of the last register_method is not enabled, or its name has the reserved prefix
Invalid(func) ==
    \/ ~funcs[func].modernrpc_enabled
    \/ StartsWith(modernrpc_name(funcs, func), ReservedPrefix)

\* C13: register_method rejects an invalid declaration before insertion: if the function is not
\* marked by rpc_method, or its name starts with 'rpc.', register_method raises
\* ImproperlyConfigured and the registry, its count and every stored descriptor, is unchanged.
C13_InvalidRejected ==
    (last.op = "register_method" /\ Invalid(last.func)) =>
        /\ last.raised
        /\ total_count(registry) = total_count(last.before)
        /\ registry = last.before

\* an enabled function named 'rpc.a' is rejected by a registry that holds other methods
C13_Witness ==
    /\ last.op = "register_method"
    /\ funcs[last.func].modernrpc_enabled
    /\ modernrpc_name(funcs, last.func) = NameRpcA
    /\ last.raised
    /\ registry # <<>>
    /\ registry = last.before

\* func can be registered: it is enabled and its name does not have the reserved prefix
Valid(func) == ~Invalid(func)

\* C19: directly after reset the count is 0, get_all_method_names and get_all_methods are empty
\* and get_method returns None for every name, entry point and protocol; every valid declaration,
\* registered before the reset or not, can then be registered, also under a name that collided
\* before the reset.
C19_ResetClears ==
    last.op = "reset" =>
        /\ total_count(registry) = 0
        /\ \A entry_point \in EntryPoints, protocol \in Protocols, sort_methods \in BOOLEAN :
              /\ get_all_method_names(registry, entry_point, protocol, sort_methods) = <<>>
              /\ get_all_methods(registry, entry_point, protocol, sort_methods) = <<>>
              /\ \A key \in Names \cup DecoratorNames :
                    get_method(registry, key, entry_point, protocol) = None
        /\ \A func \in Funcs :
              Valid(func) =>
                 LET r == register_method(registry, funcs, func)
                 IN  /\ ~r.raised
                     /\ r.value = modernrpc_name(funcs, func)
                     /\ total_count(r.registry) = 1
                     /\ get_method(r.registry, r.value, ALL, ALL) = RPCMethod(funcs, func)

\* the reset follows a register_method that was rejected for a collision: the name is held by
\* another function, which was registered before the reset too
C19_Witness ==
    /\ last.op = "reset"
    /\ last.prev.op = "register_method"
    /\ last.prev.raised
    /\ Valid(last.prev.func)
    /\ \E func \in Funcs \ {last.prev.func} :
          /\ Valid(func)
          /\ modernrpc_name(funcs, func) = modernrpc_name(funcs, last.prev.func)
    /\ ~register_method(registry, funcs, last.prev.func).raised

----------------------------------------------------------------------------
(* Lookups: get_method, get_all_method_names, get_all_methods on a registry filled at start-up *)

\* The (entry_point, protocol) arguments the functions are decorated with before the lookups
QueryDeclarations ==
    {<<Str(ALL), Str(ALL)>>, <<Str("e1"), Str(ALL)>>,
     <<Str(ALL), Str(XMLRPC_PROTOCOL)>>, <<List(<<"e1", "e2">>), Str(XMLRPC_PROTOCOL)>>}

\* the orders in which some of the functions are registered
Orders ==
    {order \in UNION {[1..n -> Funcs] : n \in 0..Cardinality(Funcs)} :
        \A i, j \in 1..Len(order) : i # j => order[i] # order[j]}

\* registry.register_method(func) for each function of order
RECURSIVE register_all(_, _, _)
register_all(reg, fs, order) ==
    IF order = <<>> THEN reg
    ELSE register_all(register_method(reg, fs, Head(order)).registry, fs, Tail(order))

\* each function of order decorated by @rpc_method(entry_point=, protocol=)
RECURSIVE decorate_all(_, _, _)
decorate_all(fs, order, cfg) ==
    IF order = <<>> THEN fs
    ELSE decorate_all(decorated(fs, Head(order), NoName, cfg[Head(order)][1], cfg[Head(order)][2]),
                      Tail(order), cfg)

InitQuery ==
    \E cfg \in [Funcs -> QueryDeclarations], order \in Orders :
        LET fs == decorate_all([func \in Funcs |-> Undecorated], order, cfg)
        IN  /\ funcs = fs
            /\ registry = register_all(<<>>, fs, order)
            /\ last = NoLast
            /\ decorations = 0
            /\ out = NoOut
            /\ pc = "idle"
            /\ rpc_request = NoRequest
            /\ rpc_result = NoResult
            /\ trace = NoTrace

Lookup(op, key, entry_point, protocol, sort_methods, value) ==
    [op |-> op, name |-> key, entry_point |-> entry_point, protocol |-> protocol,
     sort_methods |-> sort_methods, raised |-> FALSE, value |-> value]

\* registry.get_method(name, entry_point, protocol)
GetMethod(key, entry_point, protocol) ==
    /\ out' = Lookup("get_method", key, entry_point, protocol, FALSE,
                     get_method(registry, key, entry_point, protocol))
    /\ UNCHANGED <<regvars, dispatchvars>>

\* registry.get_all_method_names(entry_point, protocol, sort_methods)
GetAllMethodNames(entry_point, protocol, sort_methods) ==
    /\ out' = Lookup("get_all_method_names", NoName, entry_point, protocol, sort_methods,
                     get_all_method_names(registry, entry_point, protocol, sort_methods))
    /\ UNCHANGED <<regvars, dispatchvars>>

\* registry.get_all_methods(entry_point, protocol, sort_methods)
GetAllMethods(entry_point, protocol, sort_methods) ==
    /\ out' = Lookup("get_all_methods", NoName, entry_point, protocol, sort_methods,
                     get_all_methods(registry, entry_point, protocol, sort_methods))
    /\ UNCHANGED <<regvars, dispatchvars>>

NextQuery ==
    \/ \E key \in Names, entry_point \in EntryPoints, protocol \in Protocols :
          GetMethod(key, entry_point, protocol)
    \/ \E entry_point \in EntryPoints, protocol \in Protocols, sort_methods \in BOOLEAN :
          GetAllMethodNames(entry_point, protocol, sort_methods)
    \/ \E entry_point \in EntryPoints, protocol \in Protocols, sort_methods \in BOOLEAN :
          GetAllMethods(entry_point, protocol, sort_methods)

SpecQuery == InitQuery /\ [][NextQuery]_vars

----------------------------------------------------------------------------
(* Properties of the lookups *)

Registered(key) == HasKey(registry, key)

\* C4: get_method(name, entry_point, protocol) returns the descriptor stored under name if and
\* only if the name is registered and that descriptor is_valid_for(entry_point, protocol);
\* otherwise it returns None, and it never raises.
C4_ResolveIffValid ==
    out.op = "get_method" =>
        /\ ~out.raised
        /\ IF Registered(out.name)
              /\ is_valid_for(Item(registry, out.name), out.entry_point, out.protocol)
           THEN out.value = Item(registry, out.name) /\ out.value # None
           ELSE out.value = None

\* a registered name that is looked up for a pair it is not valid for
C4_Witness ==
    /\ out.op = "get_method"
    /\ Registered(out.name)
    /\ out.value = None
    /\ out.entry_point # ALL
    /\ \E key \in Names, protocol \in Protocols :
          get_method(registry, key, ALL, protocol) # None

Range(s) == {s[i] : i \in 1..Len(s)}

\* the registered names whose descriptor is valid for the pair of the last lookup
ValidNames ==
    {key \in Range(Keys(registry)) :
        is_valid_for(Item(registry, key), out.entry_point, out.protocol)}

\* C6: get_all_method_names returns exactly the registered names whose descriptor is valid for
\* the pair, each once; with sort_methods the result is in lexicographic order and holds the
\* names of the unsorted result.
C6_ListNames ==
    out.op = "get_all_method_names" =>
        /\ Range(out.value) = ValidNames
        /\ Len(out.value) = Cardinality(ValidNames)
        /\ out.sort_methods =>
              /\ \A i, j \in 1..Len(out.value) : i < j => StrLess(out.value[i], out.value[j])
              /\ LET unsorted == get_all_method_names(registry, out.entry_point, out.protocol, FALSE)
                 IN  Range(out.value) = Range(unsorted) /\ Len(out.value) = Len(unsorted)

\* a sorted listing that leaves a registered name out and differs from the storage order
C6_Witness ==
    /\ out.op = "get_all_method_names"
    /\ out.sort_methods
    /\ Len(out.value) >= 2
    /\ Len(out.value) < total_count(registry)
    /\ out.value # get_all_method_names(registry, out.entry_point, out.protocol, FALSE)

\* C7: get_all_methods applies the filter of get_all_method_names: for both values of
\* sort_methods it returns the descriptors of the names get_all_method_names returns for the
\* same arguments.
C7_ListMethodsSameFilter ==
    out.op = "get_all_methods" =>
        LET names == get_all_method_names(registry, out.entry_point, out.protocol, out.sort_methods)
        IN  /\ Len(out.value) = Len(names)
            /\ \A i \in 1..Len(names) : out.value[i] = Item(registry, names[i])

----------------------------------------------------------------------------
(* is_valid_for on one method, for every shape of entry_point and protocol *)

\* The entry_point and protocol arguments the function is decorated with
ValidEntryPoints ==
    {Str(ALL), Str("e1"), Str("e2"), List(<<"e1">>), List(<<"e1", "e2">>), List(<<ALL>>)}
ValidProtocols ==
    {Str(ALL), Str(XMLRPC_PROTOCOL), List(<<XMLRPC_PROTOCOL>>),
     List(<<JSONRPC_PROTOCOL, XMLRPC_PROTOCOL>>), List(<<ALL>>)}

InitValid ==
    \E entry_point \in ValidEntryPoints, protocol \in ValidProtocols :
        LET fs == decorated([func \in Funcs |-> Undecorated], "f", NoName, entry_point, protocol)
        IN  /\ funcs = fs
            /\ registry = register_all(<<>>, fs, <<"f">>)
            /\ last = NoLast
            /\ decorations = 0
            /\ out = NoOut
            /\ pc = "idle"
            /\ rpc_request = NoRequest
            /\ rpc_result = NoResult
            /\ trace = NoTrace

\* registry._registry[name].is_valid_for(entry_point, protocol)
IsValidFor(key, entry_point, protocol) ==
    /\ HasKey(registry, key)
    /\ out' = Lookup("is_valid_for", key, entry_point, protocol, FALSE,
                     is_valid_for(Item(registry, key), entry_point, protocol))
    /\ UNCHANGED <<regvars, dispatchvars>>

NextValid ==
    \E key \in Names, entry_point \in EntryPoints, protocol \in Protocols :
        IsValidFor(key, entry_point, protocol)

SpecValid == InitValid /\ [][NextValid]_vars

\* the entry points (protocols) a configured value stands for
Members(value) == IF value.kind = "list" THEN Range(value.val) ELSE {value.val}

\* the configured value is ALL, or the queried one is ALL, or the queried one is a member
Available(value, queried) ==
    \/ (value.kind = "str" /\ value.val = ALL)
    \/ queried = ALL
    \/ queried \in Members(value)

\* the method of the last is_valid_for, with the single values for which Single holds replaced
\* by their one-element lists
AsLists(m, Single(_)) ==
    [m EXCEPT !.entry_point = IF Single(@) THEN List(<<@.val>>) ELSE @,
              !.protocol = IF Single(@) THEN List(<<@.val>>) ELSE @]

IsStr(value) == value.kind = "str"
IsStrNotAll(value) == value.kind = "str" /\ value.val # ALL

\* C5 (as claimed): is_valid_for is the conjunction of the two availability conditions, and a
\* method configured with a single value, whatever the value, behaves like one configured with
\* the one-element sequence of that value.
C5_ValidForAnySingle ==
    out.op = "is_valid_for" =>
        LET m == Item(registry, out.name)
        IN  /\ out.value = (Available(m.entry_point, out.entry_point)
                            /\ Available(m.protocol, out.protocol))
            /\ out.value = is_valid_for(AsLists(m, IsStr), out.entry_point, out.protocol)

\* C5 (amended): is_valid_for is true exactly when, for entry point and for protocol, the
\* configured value is ALL, or the queried one is ALL, or the queried one is a member of the
\* configured set; a method configured with a single value other than ALL behaves like one
\* configured with the one-element sequence of that value.
C5_ValidFor ==
    out.op = "is_valid_for" =>
        LET m == Item(registry, out.name)
        IN  /\ out.value = (Available(m.entry_point, out.entry_point)
                            /\ Available(m.protocol, out.protocol))
            /\ out.value = is_valid_for(AsLists(m, IsStrNotAll), out.entry_point, out.protocol)

\* a method restricted by a single entry point, asked for that entry point and for a protocol
\* of its list
C5_Witness ==
    /\ out.op = "is_valid_for"
    /\ out.value
    /\ out.entry_point # ALL /\ out.protocol # ALL
    /\ LET m == Item(registry, out.name)
       IN  IsStrNotAll(m.entry_point) /\ m.protocol.kind = "list"

----------------------------------------------------------------------------
(* RpcRequest, RpcResult *)

\* Python None, and a dict, as the params of a request
PyNone == [kind |-> "none", val |-> <<>>]
Dict(d) == [kind |-> "dict", val |-> d]

\* an RpcRequest.__init__ that takes every params that is not a dict as the positional arguments
RpcRequest_lenient(method_name, params) ==
    LET self == [request_id |-> "None", method_name |-> method_name, args |-> <<>>, kwargs |-> <<>>]
    IN  IF params.kind = "none" THEN [raised |-> FALSE, self |-> self]
        ELSE IF params.kind = "dict"
             THEN [raised |-> FALSE, self |-> [self EXCEPT !.kwargs = params.val]]
        ELSE [raised |-> FALSE, self |-> [self EXCEPT !.args = <<params.val>>]]

\* RpcRequest.__init__(method_name, params): raised is ValueError
RpcRequest(method_name, params) ==
    LET self == [request_id |-> "None", method_name |-> method_name, args |-> <<>>, kwargs |-> <<>>]
    IN  IF params.kind = "none" THEN [raised |-> FALSE, self |-> self]
        ELSE IF params.kind = "dict"
             THEN [raised |-> FALSE, self |-> [self EXCEPT !.kwargs = params.val]]
        ELSE IF params.kind \in {"list", "set", "tuple"}
             THEN [raised |-> FALSE, self |-> [self EXCEPT !.args = params.val]]
        ELSE [raised |-> TRUE, self |-> self]

\* RpcResult.__init__
RpcResult(request_id) == [request_id |-> request_id, response_is_error |-> "None", data |-> <<>>]

\* RpcResult.is_error: None until the result is set
is_error(self) == self.response_is_error

\* RpcResult.set_success
set_success(self, data) == [self EXCEPT !.response_is_error = "False", !.data = data]

\* a set_error that stores the triple and leaves the flag as it is
set_error_data_only(self, code, message, data) == [self EXCEPT !.data = <<code, message, data>>]

\* RpcResult.set_error
set_error(self, code, message, data) ==
    [self EXCEPT !.response_is_error = "True", !.data = <<code, message, data>>]

\* RpcResult.success_data, error_code, error_message, error_data
success_data(self) == self.data
error_code(self) == self.data[1]
error_message(self) == self.data[2]
error_data(self) == self.data[3]

----------------------------------------------------------------------------
(* The envelopes on their own: requests are constructed, one result is constructed and set *)

\* The params a request is constructed with: None, {}, {'x': 5}, [], [5], (5, 6), {5}, 'x', 5
Tuple(s) == [kind |-> "tuple", val |-> s]
Set(s) == [kind |-> "set", val |-> s]
Number(i) == [kind |-> "int", val |-> i]
EnvelopeParams ==
    {PyNone, Dict(<<>>), Dict(<<<<"x", 5>>>>), List(<<>>), List(<<5>>), Tuple(<<5, 6>>), Set(<<5>>),
     Str("x"), Number(5)}

\* The values a result is set with
Payloads == {5, 7}
ErrorCodes == {-32603, -32601}
ErrorMessages == {"Internal error", "Method not found"}

\* the last operation on the result: its name, its arguments, the result before it
Operation(op, args) == [op |-> op, args |-> args, before |-> rpc_result]
NoOperation == [op |-> "none", args |-> <<>>, before |-> NoResult]

InitEnvelope ==
    /\ funcs = [func \in Funcs |-> Undecorated]
    /\ registry = <<>>
    /\ last = NoOperation
    /\ decorations = 0
    /\ out = NoOut
    /\ pc = "idle"
    /\ rpc_request = NoRequest
    /\ rpc_result = NoResult
    /\ trace = NoTrace

\* rpc_request = RpcRequest(method_name, params): nothing is assigned when the constructor raises
NewRpcRequest(method_name, params) ==
    LET r == RpcRequest(method_name, params)
    IN  /\ out' = [op |-> "RpcRequest", params |-> params, raised |-> r.raised, self |-> r.self]
        /\ rpc_request' = IF r.raised THEN rpc_request ELSE r.self
        /\ UNCHANGED <<funcs, registry, last, decorations, pc, rpc_result, trace>>

\* rpc_result = RpcResult(request_id)
NewRpcResult(request_id) ==
    /\ rpc_result' = RpcResult(request_id)
    /\ last' = Operation("RpcResult", <<>>)
    /\ pc' = "result"
    /\ UNCHANGED <<funcs, registry, decorations, out, rpc_request, trace>>

\* rpc_result.set_success(data)
SetSuccess(data) ==
    /\ pc = "result"
    /\ rpc_result' = set_success(rpc_result, data)
    /\ last' = Operation("set_success", <<data>>)
    /\ UNCHANGED <<funcs, registry, decorations, out, pc, rpc_request, trace>>

\* rpc_result.set_error(code, message)
SetError(code, message) ==
    /\ pc = "result"
    /\ rpc_result' = set_error(rpc_result, code, message, <<>>)
    /\ last' = Operation("set_error", <<code, message, <<>>>>)
    /\ UNCHANGED <<funcs, registry, decorations, out, pc, rpc_request, trace>>

NextEnvelope ==
    \/ \E method_name \in Names, params \in EnvelopeParams : NewRpcRequest(method_name, params)
    \/ \E request_id \in {"None", "1"} : NewRpcResult(request_id)
    \/ \E data \in Payloads : SetSuccess(data)
    \/ \E code \in ErrorCodes, message \in ErrorMessages : SetError(code, message)

SpecEnvelope == InitEnvelope /\ [][NextEnvelope]_vars

\* the result was set before the last operation on it
WasSet == last.op \in {"set_success", "set_error"} /\ is_error(last.before) # "None"

\* C14: a result is set once and does not change afterwards: an operation on a result that was
\* set before leaves its is_error() and its payload or error triple as they were.
C14_SetOnce ==
    WasSet =>
        /\ is_error(rpc_result) = is_error(last.before)
        /\ rpc_result.data = last.before.data

\* C17: in every state a result holds a success payload or an error triple and is_error() is
\* True or False accordingly: False with success_data the value given to set_success, True with
\* error_code, error_message and error_data the values given to set_error.
C17_OneOfSuccessError ==
    pc = "result" =>
        /\ is_error(rpc_result) \in {"True", "False"}
        /\ last.op = "set_success" =>
              /\ is_error(rpc_result) = "False"
              /\ success_data(rpc_result) = last.args[1]
        /\ last.op = "set_error" =>
              /\ is_error(rpc_result) = "True"
              /\ error_code(rpc_result) = last.args[1]
              /\ error_message(rpc_result) = last.args[2]
              /\ error_data(rpc_result) = last.args[3]

----------------------------------------------------------------------------
(* The dispatch pipeline: one request at a time, resolved, authorized, invoked *)

\* The fault kinds of the pipeline
METHOD_NOT_FOUND == "method not found"
ACCESS_DENIED == "access denied"
SERVER_ERROR == "server error"

\* The stacks of auth decorators the functions are declared with
AuthStacks ==
    {<<>>,
     <<[predicate |-> "user_is_authenticated", params |-> <<>>]>>,
     <<[predicate |-> "user_is_superuser", params |-> <<>>]>>,
     <<[predicate |-> "user_is_authenticated", params |-> <<>>],
       [predicate |-> "user_has_perm", params |-> <<"p1">>]>>,
     <<[predicate |-> "user_has_perm", params |-> <<"p1">>],
       [predicate |-> "user_has_perm", params |-> <<"p2">>],
       [predicate |-> "user_is_authenticated", params |-> <<>>]>>}

\* the auth decorators of stack applied to func, the first one first
RECURSIVE authenticate_all(_, _, _)
authenticate_all(fs, func, stack) ==
    IF stack = <<>> THEN fs
    ELSE authenticate_all(set_authentication_predicate(fs, func, Head(stack).predicate, Head(stack).params),
                          func, Tail(stack))

\* What a procedure does when it is called: it returns a value or raises an exception
Returns(value) == [raised |-> FALSE, value |-> value, message |-> ""]
Raises(message) == [raised |-> TRUE, value |-> 0, message |-> message]
Outcomes == {Returns(5), Raises("division by zero")}

\* f and g are declared, with their auth decorators, and registered; h is not
InitDispatch ==
    \E fstack \in AuthStacks, gstack \in {<<>>, <<[predicate |-> "user_is_superuser", params |-> <<>>]>>},
       fprotocol \in {Str(ALL), Str(XMLRPC_PROTOCOL)} :
        LET f1 == decorated([func \in Funcs |-> Undecorated], "f", NoName, Str(ALL), fprotocol)
            f2 == decorated(f1, "g", NoName, List(<<"e1", "e2">>), Str(ALL))
            fs == authenticate_all(authenticate_all(f2, "f", fstack), "g", gstack)
        IN  /\ funcs = fs
            /\ registry = register_all(<<>>, fs, <<"f", "g">>)
            /\ last = NoLast
            /\ decorations = 0
            /\ out = NoOut
            /\ pc = "idle"
            /\ rpc_request = NoRequest
            /\ rpc_result = NoResult
            /\ trace = NoTrace

\* the transport builds the RpcRequest and hands it to the handler of (entry_point, protocol)
Receive(method_name, params, entry_point, protocol, user) ==
    LET r == RpcRequest(method_name, params)
    IN  /\ pc = "idle"
        /\ ~r.raised
        /\ rpc_request' = [request_id |-> r.self.request_id, method_name |-> r.self.method_name,
                           args |-> r.self.args, kwargs |-> r.self.kwargs,
                           entry_point |-> entry_point, protocol |-> protocol, user |-> user]
        /\ rpc_result' = RpcResult(r.self.request_id)
        /\ trace' = [NoTrace EXCEPT !.registry = registry]
        /\ pc' = "resolve"
        /\ UNCHANGED <<regvars, out>>

\* step 1: registry.get_method(request.method_name, entry_point, protocol)
Resolve ==
    LET method == get_method(registry, rpc_request.method_name,
                             rpc_request.entry_point, rpc_request.protocol)
    IN  /\ pc = "resolve"
        /\ trace' = [trace EXCEPT !.method = method]
        /\ IF method = None
           THEN /\ rpc_result' = set_error(rpc_result, METHOD_NOT_FOUND, "Method not found", <<>>)
                /\ pc' = "done"
           ELSE /\ pc' = "authorize"
                /\ UNCHANGED rpc_result
        /\ UNCHANGED <<regvars, out, rpc_request>>

\* step 2: method.check_permissions(request)
Authorize ==
    LET auth == check_permissions(trace.method, rpc_request.user)
    IN  /\ pc = "authorize"
        /\ trace' = [trace EXCEPT !.checked = TRUE, !.auth = auth]
        /\ IF auth.raised
           THEN /\ rpc_result' = set_error(rpc_result, SERVER_ERROR, "tuple index out of range", <<>>)
                /\ pc' = "done"
           ELSE IF ~auth.value
           THEN /\ rpc_result' = set_error(rpc_result, ACCESS_DENIED, "Authentication failed", <<>>)
                /\ pc' = "done"
           ELSE /\ pc' = "invoke"
                /\ UNCHANGED rpc_result
        /\ UNCHANGED <<regvars, out, rpc_request>>

\* steps 3 to 5: the procedure is called; what it raises is caught, what it returns is the payload
Invoke(outcome) ==
    /\ pc = "invoke"
    /\ trace' = [trace EXCEPT !.called = Append(@, trace.method.function),
                              !.raised = outcome.raised, !.message = outcome.message]
    /\ rpc_result' = IF outcome.raised
                     THEN set_error(rpc_result, SERVER_ERROR, outcome.message, <<>>)
                     ELSE set_success(rpc_result, outcome.value)
    /\ pc' = "done"
    /\ UNCHANGED <<regvars, out, rpc_request>>

\* the RpcResult goes back to the transport
Respond ==
    /\ pc = "done"
    /\ pc' = "idle"
    /\ rpc_request' = NoRequest
    /\ rpc_result' = NoResult
    /\ trace' = NoTrace
    /\ UNCHANGED <<regvars, out>>

\* The requests the transport builds
RequestParams == {PyNone, List(<<5>>)}
HandlerEntryPoints == {"e1", "e3"}
HandlerProtocols == {JSONRPC_PROTOCOL, XMLRPC_PROTOCOL}

NextDispatch ==
    \/ \E method_name \in Names, params \in RequestParams, entry_point \in HandlerEntryPoints,
          protocol \in HandlerProtocols, user \in Users :
          Receive(method_name, params, entry_point, protocol, user)
    \/ Resolve
    \/ Authorize
    \/ \E outcome \in Outcomes : Invoke(outcome)
    \/ Respond

SpecDispatch == InitDispatch /\ [][NextDispatch]_vars

----------------------------------------------------------------------------
(* Properties of authorization and dispatch *)

\* every configured predicate holds for the user, each called with the parameters at its index
AllHold(self, user) ==
    \A i \in 1..Len(self.predicates) :
        Call(self.predicates[i], user, self.predicates_params[i])

\* the index of the first predicate that does not hold
FirstFalse(self, user) ==
    CHOOSE i \in 1..Len(self.predicates) :
        /\ ~Call(self.predicates[i], user, self.predicates_params[i])
        /\ \A j \in 1..(i - 1) : Call(self.predicates[j], user, self.predicates_params[j])

\* C8: check_permissions is the conjunction of the configured predicates: true with no
\* predicate, true if all of them return true, false if one returns false; each predicate is
\* called with the parameters at its own index, and stopping at the first false gives the result
\* of evaluating all of them.
C8_CheckPermissions ==
    trace.checked =>
        LET self == trace.method
            user == rpc_request.user
        IN  /\ ~trace.auth.raised
            /\ trace.auth.value = AllHold(self, user)
            /\ self.predicates = <<>> => trace.auth.value
            /\ \A k \in 1..Len(trace.auth.calls) : trace.auth.calls[k] = Called(self, k)
            /\ Len(trace.auth.calls) =
                  IF AllHold(self, user) THEN Len(self.predicates) ELSE FirstFalse(self, user)

\* the first predicate holds, a later one does not, and the ones after it are not called
C8_Witness ==
    /\ trace.checked
    /\ ~trace.auth.value
    /\ Len(trace.auth.calls) >= 2
    /\ Len(trace.auth.calls) < Len(trace.method.predicates)

Denied == trace.method # None /\ ~AllHold(trace.method, rpc_request.user)

\* C9: when the authorization check of the resolved descriptor is false the outcome is an error
\* Result of kind access denied and the procedure is never called for that request; a procedure
\* is called only after the resolution succeeded and the authorization returned true.
C9_DeniedNotInvoked ==
    /\ Denied => trace.called = <<>>
    /\ (Denied /\ pc = "done") =>
          /\ is_error(rpc_result) = "True"
          /\ error_code(rpc_result) = ACCESS_DENIED
    /\ trace.called # <<>> =>
          /\ trace.method # None
          /\ trace.method = get_method(registry, rpc_request.method_name,
                                       rpc_request.entry_point, rpc_request.protocol)
          /\ trace.checked /\ trace.auth.value
          /\ AllHold(trace.method, rpc_request.user)
          /\ trace.called = <<trace.method.function>>

\* a logged-in user without the permission asked for is denied
C9_Witness ==
    /\ pc = "done"
    /\ Denied
    /\ rpc_request.user.authenticated
    /\ is_error(rpc_result) = "True"
    /\ trace.called = <<>>

\* C10: an exception raised by the called procedure is caught by the pipeline and becomes a
\* Result with is_error() true and fault kind server error, carrying the exception's message;
\* the registry and the descriptors are the same after the dispatch as before it.
C10_ExceptionCaught ==
    /\ (pc = "done" /\ trace.raised) =>
          /\ is_error(rpc_result) = "True"
          /\ error_code(rpc_result) = SERVER_ERROR
          /\ error_message(rpc_result) = trace.message
    /\ pc # "idle" => registry = trace.registry

C10_Witness ==
    /\ pc = "done"
    /\ trace.raised
    /\ trace.called # <<>>
    /\ is_error(rpc_result) = "True"
    /\ registry # <<>>

----------------------------------------------------------------------------
(* The system procedures: system.listMethods, system.methodSignature, system.methodHelp *)

\* 'system.', and the names the system procedures are declared with
SystemPrefix == <<115, 121, 115, 116, 101, 109, 46>>
SystemListMethods == SystemPrefix \o <<108, 105, 115, 116, 77, 101, 116, 104, 111, 100, 115>>
SystemMethodSignature ==
    SystemPrefix \o <<109, 101, 116, 104, 111, 100, 83, 105, 103, 110, 97, 116, 117, 114, 101>>
SystemMethodHelp == SystemPrefix \o <<109, 101, 116, 104, 111, 100, 72, 101, 108, 112>>
SystemMultiCall == SystemPrefix \o <<109, 117, 108, 116, 105, 99, 97, 108, 108>>

\* The functions of system_methods.py, in the order of the file
SystemFuncs ==
    <<"__system_list_methods", "__system_method_signature", "__system_method_help",
      "__system_multi_call">>

\* the fault kind of RPCInvalidParams
INVALID_PARAMS == "invalid params"

\* What the introspection of a function gives: Introspector(function) and
\* DocstringParser(function); a type that is not known is ''
Introspection(args, args_types, return_type) ==
    [args |-> args, args_types |-> args_types, return_type |-> return_type]
Docstring(args_types, return_type, html_doc) ==
    [args_types |-> args_types, return_type |-> return_type, html_doc |-> html_doc]

\* a plain function with its signature and docstring
Function(introspector, doc_parser) ==
    [modernrpc_enabled |-> FALSE, modernrpc_name |-> NoName,
     modernrpc_entry_point |-> Unset, modernrpc_protocol |-> Unset,
     modernrpc_auth_predicates |-> <<>>, modernrpc_auth_predicates_params |-> <<>>,
     introspector |-> introspector, doc_parser |-> doc_parser]

\* dict.get(key, '')
Get(d, key) == IF key \in DOMAIN d THEN d[key] ELSE ""

\* a or b, on strings
Or(a, b) == IF a # "" THEN a ELSE b

\* an args_doc that takes the type of the signature before the type of the docstring
args_doc_structural(fs, self) ==
    LET introspector == fs[self.function].introspector
        doc_parser == fs[self.function].doc_parser
    IN  [i \in 1..Len(introspector.args) |->
            [arg |-> introspector.args[i],
             type |-> Or(Get(introspector.args_types, introspector.args[i]),
                         Get(doc_parser.args_types, introspector.args[i]))]]

\* RPCMethod.args_doc: the values of the OrderedDict, in the order of introspector.args
args_doc(fs, self) ==
    LET introspector == fs[self.function].introspector
        doc_parser == fs[self.function].doc_parser
    IN  [i \in 1..Len(introspector.args) |->
            [arg |-> introspector.args[i],
             type |-> Or(Get(doc_parser.args_types, introspector.args[i]),
                         Get(introspector.args_types, introspector.args[i]))]]

\* RPCMethod.return_doc
return_doc(fs, self) ==
    [type |-> Or(fs[self.function].doc_parser.return_type,
                 fs[self.function].introspector.return_type)]

\* RPCMethod.html_doc
html_doc(fs, self) == fs[self.function].doc_parser.html_doc

\* [t for t in signature if t]
RECURSIVE Truthy(_)
Truthy(signature) ==
    IF signature = <<>> THEN <<>>
    ELSE IF Head(signature) # "" THEN <<Head(signature)>> \o Truthy(Tail(signature))
    ELSE Truthy(Tail(signature))

\* a system.listMethods that asks for the names in the order of the registry
system_list_methods_unsorted(reg, entry_point, protocol) ==
    Return(reg, get_all_method_names(reg, entry_point, protocol, FALSE))

\* __system_list_methods(**kwargs)
system_list_methods(reg, entry_point, protocol) ==
    Return(reg, get_all_method_names(reg, entry_point, protocol, TRUE))

\* __system_method_signature(method_name, **kwargs): raised is RPCInvalidParams
system_method_signature(reg, fs, method_name, entry_point, protocol) ==
    LET method == get_method(reg, method_name, entry_point, protocol)
    IN  IF method = None THEN Raise(reg)
        ELSE LET signature == <<return_doc(fs, method).type>>
                              \o [i \in 1..Len(args_doc(fs, method)) |-> args_doc(fs, method)[i].type]
             IN  Return(reg, Truthy(signature))

\* a system.methodHelp that looks the name up for every entry point and protocol
system_method_help_any(reg, fs, method_name, entry_point, protocol) ==
    LET method == get_method(reg, method_name, ALL, ALL)
    IN  IF method = None THEN Raise(reg) ELSE Return(reg, html_doc(fs, method))

\* __system_method_help(method_name, **kwargs): raised is RPCInvalidParams
system_method_help(reg, fs, method_name, entry_point, protocol) ==
    LET method == get_method(reg, method_name, entry_point, protocol)
    IN  IF method = None THEN Raise(reg) ELSE Return(reg, html_doc(fs, method))

\* The signatures and docstrings f is written with
NoTypes == Introspection(<<>>, <<>>, "")
NoDoc == Docstring(<<>>, "", "")
Documentations ==
    {<<NoTypes, NoDoc>>,
     <<Introspection(<<"x">>, [a \in {"x"} |-> "int"], "int"), NoDoc>>,
     <<Introspection(<<"x", "y">>, <<>>, ""),
       Docstring([a \in {"x", "y"} |-> IF a = "x" THEN "str" ELSE "int"], "bool", "<p>f</p>")>>,
     <<Introspection(<<"x">>, [a \in {"x"} |-> "int"], "int"),
       Docstring([a \in {"x"} |-> "str"], "float", "<p>f</p>")>>,
     <<Introspection(<<"x", "y", "z">>, [a \in {"y"} |-> "int"], ""), NoDoc>>,
     <<Introspection(<<"x", "y", "z">>, [a \in {"x", "z"} |-> IF a = "x" THEN "int" ELSE ""], "list"),
       Docstring([a \in {"z"} |-> "str"], "", "")>>}

\* the functions before they are decorated: f with one of the documentations, the system
\* procedures with their signatures
SystemFunctions(documentation) ==
    [func \in Funcs \cup Range(SystemFuncs) |->
        IF func = "f" THEN Function(documentation[1], documentation[2])
        ELSE IF func = "__system_list_methods"
        THEN Function(NoTypes, Docstring(<<>>, "", "<p>Returns a list of all methods</p>"))
        ELSE IF func = "__system_multi_call"
        THEN Function(Introspection(<<"calls">>, <<>>, ""),
                      Docstring(<<>>, "", "<p>Call multiple RPC methods at once.</p>"))
        ELSE IF func \in Range(SystemFuncs)
        THEN Function(Introspection(<<"method_name">>, <<>>, ""),
                      Docstring(<<>>, "", "<p>Returns the documentation</p>"))
        ELSE Function(NoTypes, NoDoc)]

\* the decorators of system_methods.py
system_methods(fs) ==
    LET fs1 == decorated(fs, "__system_list_methods", SystemListMethods, Str(ALL), Str(ALL))
        fs2 == decorated(fs1, "__system_method_signature", SystemMethodSignature, Str(ALL), Str(ALL))
        fs3 == decorated(fs2, "__system_method_help", SystemMethodHelp, Str(ALL), Str(ALL))
    IN  decorated(fs3, "__system_multi_call", SystemMultiCall, Str(ALL), Str(XMLRPC_PROTOCOL))

\* The orders in which the functions are registered at start-up; h is not registered
SystemOrders == {SystemFuncs \o <<"f", "g">>, <<"g", "f">> \o SystemFuncs}

InitSystem ==
    \E documentation \in Documentations, fdecl \in QueryDeclarations,
       gdecl \in {<<Str(ALL), Str(ALL)>>, <<List(<<"e1", "e2">>), Str(JSONRPC_PROTOCOL)>>},
       order \in SystemOrders :
        LET fs1 == system_methods(SystemFunctions(documentation))
            fs2 == decorated(fs1, "f", NoName, fdecl[1], fdecl[2])
            fs == decorated(fs2, "g", NoName, gdecl[1], gdecl[2])
        IN  /\ funcs = fs
            /\ registry = register_all(<<>>, fs, order)
            /\ last = NoLast
            /\ decorations = 0
            /\ out = NoOut
            /\ pc = "idle"
            /\ rpc_request = NoRequest
            /\ rpc_result = NoResult
            /\ trace = NoTrace

\* what a call of a system procedure for the handler of (entry_point, protocol) gave
SystemCall(op, method_name, entry_point, protocol, r) ==
    [op |-> op, name |-> method_name, entry_point |-> entry_point, protocol |-> protocol,
     raised |-> r.raised, error |-> IF r.raised THEN INVALID_PARAMS ELSE "", value |-> r.value]

\* system.listMethods()
ListMethods(entry_point, protocol) ==
    /\ out' = SystemCall("system.listMethods", NoName, entry_point, protocol,
                         system_list_methods(registry, entry_point, protocol))
    /\ UNCHANGED <<regvars, dispatchvars>>

\* system.methodSignature(method_name)
MethodSignature(method_name, entry_point, protocol) ==
    /\ out' = SystemCall("system.methodSignature", method_name, entry_point, protocol,
                         system_method_signature(registry, funcs, method_name, entry_point, protocol))
    /\ UNCHANGED <<regvars, dispatchvars>>

\* system.methodHelp(method_name)
MethodHelp(method_name, entry_point, protocol) ==
    /\ out' = SystemCall("system.methodHelp", method_name, entry_point, protocol,
                         system_method_help(registry, funcs, method_name, entry_point, protocol))
    /\ UNCHANGED <<regvars, dispatchvars>>

\* The names the callers ask about
SystemNames == Names \cup {SystemListMethods, SystemMethodSignature, SystemMethodHelp, SystemMultiCall}

NextSystem ==
    \/ \E entry_point \in HandlerEntryPoints, protocol \in HandlerProtocols :
          ListMethods(entry_point, protocol)
    \/ \E method_name \in SystemNames, entry_point \in HandlerEntryPoints, protocol \in HandlerProtocols :
          MethodSignature(method_name, entry_point, protocol)
    \/ \E method_name \in SystemNames, entry_point \in HandlerEntryPoints, protocol \in HandlerProtocols :
          MethodHelp(method_name, entry_point, protocol)

SpecSystem == InitSystem /\ [][NextSystem]_vars

----------------------------------------------------------------------------
(* Properties of the system procedures *)

\* the last system call was made for a pair its method_name resolves for
Resolves ==
    /\ Registered(out.name)
    /\ is_valid_for(Item(registry, out.name), out.entry_point, out.protocol)

\* C15: system.listMethods returns, in lexicographic order and each once, exactly the registered
\* names whose method is valid for the caller's entry point and protocol; system.multicall is
\* listed and resolved for a caller of the XML-RPC protocol, and is neither listed nor resolved
\* for a caller of the JSON-RPC protocol.
C15_ListMethods ==
    out.op = "system.listMethods" =>
        /\ ~out.raised
        /\ Range(out.value) = ValidNames
        /\ Len(out.value) = Cardinality(ValidNames)
        /\ \A i, j \in 1..Len(out.value) : i < j => StrLess(out.value[i], out.value[j])
        /\ Registered(SystemMultiCall)
        /\ SystemMultiCall \in Range(out.value) <=> out.protocol = XMLRPC_PROTOCOL
        /\ get_method(registry, SystemMultiCall, out.entry_point, out.protocol) # None
              <=> out.protocol = XMLRPC_PROTOCOL

\* a JSON-RPC caller gets a list without system.multicall and without one of f and g, in an
\* order that is not the order of registration
C15_Witness ==
    /\ out.op = "system.listMethods"
    /\ out.protocol = JSONRPC_PROTOCOL
    /\ SystemMultiCall \notin Range(out.value)
    /\ SystemListMethods \in Range(out.value)
    /\ Len(out.value) = 4
    /\ out.value # get_all_method_names(registry, out.entry_point, out.protocol, FALSE)

\* C16: system.methodSignature and system.methodHelp raise RPCInvalidParams exactly when
\* method_name does not resolve for the caller's entry point and protocol, be it unregistered or
\* registered and not valid for the pair; they return a value only when it resolves.
C16_InvalidParams ==
    out.op \in {"system.methodSignature", "system.methodHelp"} =>
        /\ out.raised <=> ~Resolves
        /\ out.raised => out.error = INVALID_PARAMS
        /\ out.raised <=> get_method(registry, out.name, out.entry_point, out.protocol) = None
        /\ (~out.raised /\ out.op = "system.methodHelp") =>
              out.value = funcs[Item(registry, out.name).function].doc_parser.html_doc

\* system.methodHelp of a registered name that is not valid for the caller's pair
C16_Witness ==
    /\ out.op = "system.methodHelp"
    /\ out.raised
    /\ Registered(out.name)
    /\ out.name \notin {SystemMultiCall}
    /\ \E entry_point \in HandlerEntryPoints, protocol \in HandlerProtocols :
          get_method(registry, out.name, entry_point, protocol) # None

\* the types of the function of the last system.methodSignature: the return type, then the
\* type of each argument; the type of the docstring if there is one, else the type of the
\* signature, else ''
DeclaredTypes ==
    LET f == funcs[Item(registry, out.name).function]
        Type(doc, sig) == IF doc # "" THEN doc ELSE sig
    IN  [i \in 1..(1 + Len(f.introspector.args)) |->
            IF i = 1 THEN Type(f.doc_parser.return_type, f.introspector.return_type)
            ELSE Type(Get(f.doc_parser.args_types, f.introspector.args[i - 1]),
                      Get(f.introspector.args_types, f.introspector.args[i - 1]))]

\* the positions of the types that are known, and the k-th of them
KnownTypes == {i \in DOMAIN DeclaredTypes : DeclaredTypes[i] # ""}
KthKnown(k) == CHOOSE i \in KnownTypes : Cardinality({j \in KnownTypes : j <= i}) = k

----------------------------------------------------------------------------
(* system.multicall: each call of the list goes through the dispatch pipeline *)

\* A call of the list: a struct with 'methodName' and 'params'; params None is a struct without
\* 'params'
CallStruct(methodName, params) ==
    [has_methodName |-> TRUE, methodName |-> methodName, params |-> params]
\* a struct without 'methodName'
NoMethodName(params) == [has_methodName |-> FALSE, methodName |-> NoName, params |-> params]

\* The calls of the lists: f(5), g(), a name that is not registered, f with params 'x', a
\* struct without 'methodName'
CallStructs ==
    {CallStruct(NameAB, List(<<5>>)), CallStruct(NameB, PyNone), CallStruct(NameA, PyNone),
     CallStruct(NameAB, Str("x")), NoMethodName(PyNone)}

\* The values of the calls argument: the lists of at most MaxCalls calls, and a struct
CallLists ==
    {List(calls) : calls \in UNION {[1..n -> CallStructs] : n \in 0..MaxCalls}}
    \cup {Dict(<<>>)}

\* The entries of the list system.multicall returns
Fault(faultCode, faultString) ==
    [kind |-> "fault", faultCode |-> faultCode, faultString |-> faultString]

\* an entry that is the success payload itself, not a list around it
multicall_entry_bare(rpc_res) ==
    IF is_error(rpc_res) = "True"
    THEN Fault(error_code(rpc_res), error_message(rpc_res))
    ELSE [kind |-> "value", val |-> success_data(rpc_res)]

\* what the loop appends to results for the RpcResult of a call
multicall_entry(rpc_res) ==
    IF is_error(rpc_res) = "True"
    THEN Fault(error_code(rpc_res), error_message(rpc_res))
    ELSE List(<<success_data(rpc_res)>>)

\* The state of a call of system.multicall: its arguments, the requests handed to
\* handler.process_request, the RpcResults it returned, the results list
MultiCall(calls, entry_point, user, status, error) ==
    [op |-> "system.multicall", is_list |-> calls.kind = "list", calls |-> calls.val,
     entry_point |-> entry_point, user |-> user, status |-> status, error |-> error,
     requests |-> <<>>, rpc_results |-> <<>>, results |-> <<>>]

\* f and g are registered with the system procedures; g is for superusers, on e1 and e2
InitMulticall ==
    \E fstack \in {<<>>, <<[predicate |-> "user_is_authenticated", params |-> <<>>]>>} :
        LET fs1 == system_methods(SystemFunctions(<<NoTypes, NoDoc>>))
            fs2 == decorated(fs1, "f", NoName, Str(ALL), Str(ALL))
            fs3 == decorated(fs2, "g", NoName, List(<<"e1", "e2">>), Str(ALL))
            fs == authenticate_all(authenticate_all(fs3, "f", fstack), "g",
                                   <<[predicate |-> "user_is_superuser", params |-> <<>>]>>)
        IN  /\ funcs = fs
            /\ registry = register_all(<<>>, fs, SystemFuncs \o <<"f", "g">>)
            /\ last = NoLast
            /\ decorations = 0
            /\ out = NoOut
            /\ pc = "idle"
            /\ rpc_request = NoRequest
            /\ rpc_result = NoResult
            /\ trace = NoTrace

Running == out.op = "system.multicall" /\ out.status = "running"

\* __system_multi_call(calls, **kwargs) is called by the XML-RPC handler of entry_point:
\* lines 77 to 82
CallMultiCall(calls, entry_point, user) ==
    /\ pc = "idle"
    /\ ~Running
    /\ get_method(registry, SystemMultiCall, entry_point, XMLRPC_PROTOCOL) # None
    /\ out' = IF calls.kind # "list"
              THEN MultiCall(calls, entry_point, user, "raised", INVALID_PARAMS)
              ELSE MultiCall(calls, entry_point, user, "running", "")
    /\ UNCHANGED <<regvars, dispatchvars>>

\* the next call of the loop, lines 84 to 87: the RpcRequest is built and handed to
\* handler.process_request; what call['methodName'] or RpcRequest raises leaves the procedure
SubCall ==
    /\ Running
    /\ pc = "idle"
    /\ Len(out.results) < Len(out.calls)
    /\ LET call == out.calls[Len(out.results) + 1]
           r == RpcRequest(call.methodName, call.params)
       IN  IF ~call.has_methodName
           THEN /\ out' = [out EXCEPT !.status = "raised", !.error = "KeyError"]
                /\ UNCHANGED dispatchvars
           ELSE IF r.raised
           THEN /\ out' = [out EXCEPT !.status = "raised", !.error = "ValueError"]
                /\ UNCHANGED dispatchvars
           ELSE /\ out' = [out EXCEPT !.requests = Append(@, r.self)]
                /\ rpc_request' = [request_id |-> r.self.request_id,
                                   method_name |-> r.self.method_name,
                                   args |-> r.self.args, kwargs |-> r.self.kwargs,
                                   entry_point |-> out.entry_point,
                                   protocol |-> XMLRPC_PROTOCOL, user |-> out.user]
                /\ rpc_result' = RpcResult(r.self.request_id)
                /\ trace' = [NoTrace EXCEPT !.registry = registry]
                /\ pc' = "resolve"
    /\ UNCHANGED regvars

\* lines 89 to 98: the RpcResult of the call becomes an entry of results
Collect ==
    /\ Running
    /\ pc = "done"
    /\ out' = [out EXCEPT !.rpc_results = Append(@, rpc_result),
                          !.results = Append(@, multicall_entry(rpc_result))]
    /\ pc' = "idle"
    /\ rpc_request' = NoRequest
    /\ rpc_result' = NoResult
    /\ trace' = NoTrace
    /\ UNCHANGED regvars

\* line 100: return results
ReturnResults ==
    /\ Running
    /\ pc = "idle"
    /\ Len(out.results) = Len(out.calls)
    /\ out' = [out EXCEPT !.status = "returned"]
    /\ UNCHANGED <<regvars, dispatchvars>>

NextMulticall ==
    \/ \E calls \in CallLists, entry_point \in HandlerEntryPoints, user \in {Anonymous, Superuser} :
          CallMultiCall(calls, entry_point, user)
    \/ SubCall
    \/ Resolve
    \/ Authorize
    \/ \E outcome \in Outcomes : Invoke(outcome)
    \/ Collect
    \/ ReturnResults

SpecMulticall == InitMulticall /\ [][NextMulticall]_vars

----------------------------------------------------------------------------
(* Properties of system.multicall *)

\* a call of system.multicall with a list of calls is over: it returned or it raised
Over == out.op = "system.multicall" /\ out.is_list /\ out.status # "running"

\* C11: system.multicall never aborts early: when a call with a list of calls is over, every
\* call of the list has been handed to the dispatch pipeline, whatever happened to the calls
\* before it (method not found, access denied, exception of the procedure, malformed method name
\* or params), and results has an entry for each of them.
C11_NeverAborts ==
    Over =>
        /\ out.status = "returned"
        /\ Len(out.requests) = Len(out.calls)
        /\ Len(out.results) = Len(out.calls)

\* C12: system.multicall returns one entry per call, in the order of the list: the calls are
\* handed to the pipeline one after the other in that order, entry i is the fault struct with
\* error_code and error_message of the RpcResult of call i when it is an error and else the
\* one-element list of its success_data, and the returned list is as long as calls.
C12_OneEntryPerCall ==
    (out.op = "system.multicall" /\ out.is_list) =>
        /\ Len(out.rpc_results) = Len(out.results)
        /\ Len(out.requests) = Len(out.results) + (IF pc = "idle" THEN 0 ELSE 1)
        /\ Len(out.requests) <= Len(out.calls)
        /\ \A i \in 1..Len(out.requests) :
              /\ out.requests[i].method_name = out.calls[i].methodName
              /\ out.calls[i].params.kind = "list" => out.requests[i].args = out.calls[i].params.val
        /\ \A i \in 1..Len(out.results) :
              IF is_error(out.rpc_results[i]) = "True"
              THEN /\ out.results[i].kind = "fault"
                   /\ out.results[i].faultCode = error_code(out.rpc_results[i])
                   /\ out.results[i].faultString = error_message(out.rpc_results[i])
              ELSE /\ out.results[i].kind = "list"
                   /\ Len(out.results[i].val) = 1
                   /\ out.results[i].val[1] = success_data(out.rpc_results[i])
        /\ out.status = "returned" => Len(out.results) = Len(out.calls)

\* f(5) then a name that is not registered: [[5], {faultCode, faultString}] is returned
C12_Witness ==
    /\ out.op = "system.multicall"
    /\ out.status = "returned"
    /\ Len(out.calls) = 2
    /\ Len(out.results) = 2
    /\ out.results[1].kind = "list"
    /\ out.results[1].val = <<5>>
    /\ out.results[2].kind = "fault"
    /\ out.results[2].faultCode = METHOD_NOT_FOUND

====
